---- MODULE Spec2Model ----
(***************************************************************************)
(* A model of ccbackup: the sensitive-data detector and sanitizer          *)
(* (src/ccbackup.py, SENSITIVE_PATTERNS, detect_sensitive_in_file,         *)
(* sanitize_content) and the archive-assembly pipeline (create_backup).    *)
(*                                                                         *)
(* Text is a sequence of one-character strings.  The regular expressions   *)
(* of SENSITIVE_PATTERNS are modelled by matchers that do what Python's re *)
(* does on them: leftmost, non-overlapping, greedy.                        *)
(***************************************************************************)
EXTENDS Integers, Sequences, FiniteSets, TLC

(***************************************************************************)
(* Characters and character classes of the patterns.                       *)
(***************************************************************************)
Quote == "\""

\* \s of the patterns, restricted to the whitespace the inputs use
Whitespace == {" ", "\t", "\n"}

LowerLetters ==
  <<"a", "b", "c", "d", "e", "f", "g", "h", "i", "j", "k", "l", "m",
    "n", "o", "p", "q", "r", "s", "t", "u", "v", "w", "x", "y", "z">>

UpperLetters ==
  <<"A", "B", "C", "D", "E", "F", "G", "H", "I", "J", "K", "L", "M",
    "N", "O", "P", "Q", "R", "S", "T", "U", "V", "W", "X", "Y", "Z">>

Digits == {"0", "1", "2", "3", "4", "5", "6", "7", "8", "9"}

\* the class [a-zA-Z0-9\-_] of the bare-token pattern
TokenChars ==
  {LowerLetters[i] : i \in 1..Len(LowerLetters)}
    \cup {UpperLetters[i] : i \in 1..Len(UpperLetters)}
    \cup Digits \cup {"-", "_"}

\* str.upper() on one character
UpperChar(c) ==
  IF \E i \in 1..Len(LowerLetters) : LowerLetters[i] = c
  THEN UpperLetters[CHOOSE i \in 1..Len(LowerLetters) : LowerLetters[i] = c]
  ELSE c

\* name.upper()
Upper(name) == [i \in 1..Len(name) |-> UpperChar(name[i])]

(***************************************************************************)
(* SENSITIVE_PATTERNS: the ordered registry.  A key-value pattern          *)
(*   "KEY"\s*:\s*"([^"]+)"                                                 *)
(* is given by its KEY and has one capture group; the last pattern         *)
(*   sk-ant-[a-zA-Z0-9\-_]+                                                *)
(* is given by its literal prefix and has no group.                        *)
(***************************************************************************)
anthropic_token ==
  <<"a", "n", "t", "h", "r", "o", "p", "i", "c", "_", "t", "o", "k", "e", "n">>

SENSITIVE_PATTERNS ==
  << [group |-> TRUE,
      lit |-> <<"A", "N", "T", "H", "R", "O", "P", "I", "C", "_", "A", "U", "T", "H", "_", "T", "O", "K", "E", "N">>,
      name |-> <<"A", "N", "T", "H", "R", "O", "P", "I", "C", "_", "A", "U", "T", "H", "_", "T", "O", "K", "E", "N">>],
     [group |-> TRUE,
      lit |-> <<"A", "N", "T", "H", "R", "O", "P", "I", "C", "_", "A", "P", "I", "_", "K", "E", "Y">>,
      name |-> <<"A", "N", "T", "H", "R", "O", "P", "I", "C", "_", "A", "P", "I", "_", "K", "E", "Y">>],
     [group |-> TRUE,
      lit |-> <<"a", "p", "i", "_", "k", "e", "y">>,
      name |-> <<"a", "p", "i", "_", "k", "e", "y">>],
     [group |-> TRUE,
      lit |-> <<"a", "p", "i", "K", "e", "y">>,
      name |-> <<"a", "p", "i", "K", "e", "y">>],
     [group |-> TRUE,
      lit |-> <<"b", "a", "r", "k", "_", "k", "e", "y">>,
      name |-> <<"b", "a", "r", "k", "_", "k", "e", "y">>],
     [group |-> TRUE,
      lit |-> <<"t", "o", "k", "e", "n">>,
      name |-> <<"t", "o", "k", "e", "n">>],
     [group |-> TRUE,
      lit |-> <<"s", "e", "c", "r", "e", "t">>,
      name |-> <<"s", "e", "c", "r", "e", "t">>],
     [group |-> FALSE,
      lit |-> <<"s", "k", "-", "a", "n", "t", "-">>,
      name |-> anthropic_token] >>

(***************************************************************************)
(* Matching one pattern at one position.  A match is a record              *)
(* [start, end, gs, ge]: the span of group 0 and the span of group 1 (for  *)
(* the pattern without a group, gs..ge is the whole match, which is what   *)
(* re.findall returns for it).  NoMatch has end = 0.                       *)
(***************************************************************************)
NoMatch == [start |-> 0, end |-> 0, gs |-> 0, ge |-> 0]

StartsWithAt(s, pos, lit) ==
  /\ pos + Len(lit) - 1 <= Len(s)
  /\ \A k \in 1..Len(lit) : s[pos + k - 1] = lit[k]

\* greedy \s* : the first position at or after pos that holds no whitespace
SkipWhitespace(s, pos) ==
  CHOOSE q \in pos..(Len(s) + 1) :
    /\ q > Len(s) \/ s[q] \notin Whitespace
    /\ \A r \in pos..(q - 1) : s[r] \in Whitespace

\* greedy [^"]* : the first position at or after pos that holds a quote
SkipNonQuote(s, pos) ==
  CHOOSE q \in pos..(Len(s) + 1) :
    /\ q > Len(s) \/ s[q] = Quote
    /\ \A r \in pos..(q - 1) : s[r] # Quote

\* greedy [a-zA-Z0-9\-_]* : the first position at or after pos outside the class
SkipTokenChars(s, pos) ==
  CHOOSE q \in pos..(Len(s) + 1) :
    /\ q > Len(s) \/ s[q] \notin TokenChars
    /\ \A r \in pos..(q - 1) : s[r] \in TokenChars

\* "KEY"\s*:\s*"([^"]+)" at pos
MatchKeyValue(s, pos, key) ==
  LET lit == <<Quote>> \o key \o <<Quote>>
      colon == SkipWhitespace(s, pos + Len(lit))
      open == SkipWhitespace(s, colon + 1)
      close == SkipNonQuote(s, open + 1)
  IN  IF /\ s[pos] = Quote
         /\ StartsWithAt(s, pos, lit)
         /\ colon <= Len(s) /\ s[colon] = ":"
         /\ open <= Len(s) /\ s[open] = Quote
         /\ close <= Len(s) /\ close > open + 1
      THEN [start |-> pos, end |-> close, gs |-> open + 1, ge |-> close - 1]
      ELSE NoMatch

\* the bare-token pattern without its `+`: one character after the prefix
MatchBareTokenOneChar(s, pos, prefix) ==
  LET first == pos + Len(prefix)
  IN  IF StartsWithAt(s, pos, prefix) /\ first <= Len(s) /\ s[first] \in TokenChars
      THEN [start |-> pos, end |-> first, gs |-> pos, ge |-> first]
      ELSE NoMatch

\* sk-ant-[a-zA-Z0-9\-_]+ at pos
MatchBareToken(s, pos, prefix) ==
  LET first == pos + Len(prefix)
      stop == SkipTokenChars(s, first)
  IN  IF StartsWithAt(s, pos, prefix) /\ stop > first
      THEN [start |-> pos, end |-> stop - 1, gs |-> pos, ge |-> stop - 1]
      ELSE NoMatch

MatchAt(p, s, pos) ==
  IF p.group THEN MatchKeyValue(s, pos, p.lit) ELSE MatchBareToken(s, pos, p.lit)

(***************************************************************************)
(* sanitize_content                                                        *)
(***************************************************************************)
\* f"<YOUR_{name.upper()}>"
Placeholder(name) == <<"<", "Y", "O", "U", "R", "_">> \o Upper(name) \o <<">">>

\* str.find(old, pos): the first occurrence of old at or after pos, 0 if none
Find(s, old, pos) ==
  IF \E q \in pos..Len(s) : StartsWithAt(s, q, old)
  THEN CHOOSE q \in pos..Len(s) :
         /\ StartsWithAt(s, q, old)
         /\ \A r \in pos..(q - 1) : ~ StartsWithAt(s, r, old)
  ELSE 0

\* str.replace(old, new): every non-overlapping occurrence, left to right
RECURSIVE StrReplaceFrom(_, _, _, _)
StrReplaceFrom(s, old, new, pos) ==
  LET q == Find(s, old, pos)
  IN  IF q = 0
      THEN SubSeq(s, pos, Len(s))
      ELSE SubSeq(s, pos, q - 1) \o new \o StrReplaceFrom(s, old, new, q + Len(old))

StrReplace(s, old, new) == StrReplaceFrom(s, old, new, 1)

\* the callback handed to re.sub
replace_match(p, s, m) ==
  IF p.name = anthropic_token
  THEN Placeholder(p.name)
  ELSE StrReplace(SubSeq(s, m.start, m.end), SubSeq(s, m.gs, m.ge), Placeholder(p.name))

\* re.search from pos: the start of the leftmost match at or after pos, 0 if none
Search(p, s, pos) ==
  IF \E q \in pos..Len(s) : MatchAt(p, s, q).end # 0
  THEN CHOOSE q \in pos..Len(s) :
         /\ MatchAt(p, s, q).end # 0
         /\ \A r \in pos..(q - 1) : MatchAt(p, s, r).end = 0
  ELSE 0

\* re.sub(pattern, replace_match, s): leftmost non-overlapping matches
RECURSIVE ReSubFrom(_, _, _)
ReSubFrom(p, s, pos) ==
  LET q == Search(p, s, pos)
      m == MatchAt(p, s, q)
  IN  IF q = 0
      THEN SubSeq(s, pos, Len(s))
      ELSE SubSeq(s, pos, q - 1) \o replace_match(p, s, m) \o ReSubFrom(p, s, m.end + 1)

ReSub(p, s) == ReSubFrom(p, s, 1)

\* the loop over SENSITIVE_PATTERNS, from pattern k on
RECURSIVE SanitizeFrom(_, _)
SanitizeFrom(s, k) ==
  IF k > Len(SENSITIVE_PATTERNS) THEN s
  ELSE SanitizeFrom(ReSub(SENSITIVE_PATTERNS[k], s), k + 1)

sanitize_content(content) == SanitizeFrom(content, 1)

(***************************************************************************)
(* detect_sensitive_in_file, the part after the file was read              *)
(***************************************************************************)
\* re.findall(pattern, s): group 1 of every match (the whole match when the
\* pattern has no group)
RECURSIVE ReFindAllFrom(_, _, _)
ReFindAllFrom(p, s, pos) ==
  LET q == Search(p, s, pos)
      m == MatchAt(p, s, q)
  IN  IF q = 0
      THEN <<>>
      ELSE <<SubSeq(s, m.gs, m.ge)>> \o ReFindAllFrom(p, s, m.end + 1)

ReFindAll(p, s) == ReFindAllFrom(p, s, 1)

\* the filter of line 150
Reported(match) ==
  /\ match # <<>>
  /\ match[1] # "<"
  /\ match[Len(match)] # ">"

RECURSIVE FindingsFrom(_, _)
FindingsFrom(content, k) ==
  IF k > Len(SENSITIVE_PATTERNS) THEN <<>>
  ELSE LET p == SENSITIVE_PATTERNS[k]
           matches == ReFindAll(p, content)
           kept == SelectSeq(matches, Reported)
       IN  [i \in 1..Len(kept) |-> <<p.name, kept[i]>>] \o FindingsFrom(content, k + 1)

detect_sensitive(content) == FindingsFrom(content, 1)

(***************************************************************************)
(* The file system the pipeline works on.                                  *)
(*                                                                         *)
(* A file is [data, utf8]: its bytes as a sequence of characters, and      *)
(* whether read_text(encoding="utf-8") decodes them.  A directory of       *)
(* files is a function from relative paths to files.                       *)
(***************************************************************************)
VARIABLES
  src,         \* the source root ~/.claude: [exists, files, dirs, body]
  now,         \* the last reading of the wall clock, in seconds
  pending,     \* the create_backup calls the front-end has yet to make
  pc,          \* pc[i]: the step invocation i is about to execute
  call,        \* call[i]: the arguments of invocation i
  temp_dir,    \* temp_dir[i]: the timestamp naming i's staging directory, 0 before it is set
  error,       \* error[i]: the exception in flight in invocation i, "none" if none
  outcome,     \* outcome[i]: how invocation i ended
  staging,     \* staging[t]: the directory /tmp/ccbackup_<t>
  archive,     \* archive[p]: the file at output path p
  io_error,    \* whether the environment has failed an I/O call
  text,        \* sanitizer runs: the input text
  phase,       \* sanitizer runs: what has been computed so far
  sanitized,   \* sanitizer runs: sanitize_content(text)
  resanitized, \* sanitizer runs: sanitize_content(sanitized)
  findings,    \* sanitizer runs: the detector's findings on sanitized
  copy_in,     \* copy runs: the arguments of copy_file_with_sanitize
  copy_out,    \* copy runs: what the call raised and what it wrote to dest
  scan_pc,     \* scan runs: where scan_for_sensitive is
  files_to_scan, \* scan runs: the files the loop of scan_for_sensitive has yet to visit
  results,     \* scan runs: the dict scan_for_sensitive builds
  worker,      \* TUI runs: worker[w], where the w-th _do_backup coroutine is
  loop,        \* TUI runs: the worker whose code the event loop is running, 0 if none
  quit         \* TUI runs: whether the application has exited

pipeline_vars ==
  <<src, now, pending, pc, call, temp_dir, error, outcome, staging, archive, io_error>>

sanitizer_vars == <<text, phase, sanitized, resanitized, findings>>

copy_vars == <<copy_in, copy_out>>

\* the variables of the runs of single functions other than the sanitizer
scan_vars == <<scan_pc, files_to_scan, results>>

tui_vars == <<worker, loop, quit>>

other_vars == <<copy_vars, scan_vars, tui_vars>>

vars == <<pipeline_vars, sanitizer_vars, other_vars>>

\* how many create_backup invocations a behaviour holds
NumInvocations == 2

\* the wall clock reads 1..MaxTime (one unit is one second, the resolution of
\* the %Y%m%d_%H%M%S timestamp)
MaxTime == 2

Invocations == 1..NumInvocations

Timestamps == 1..MaxTime

OutputPaths == {"old_backup.zip", "new_backup.zip"}

\* the files create_backup looks for directly under the source root
TopFiles ==
  {"CLAUDE.md", "settings.json", "plugins/installed_plugins.json",
   "plugins/known_marketplaces.json", "history.jsonl"}

Dirs == {"skills", "projects"}

\* what a non-empty skills/ or projects/ holds
DirFiles(d) ==
  IF d = "skills" THEN {"skills/demo/config.json", "skills/demo/run.sh"}
  ELSE {"projects/p1/session.jsonl"}

\* Path.suffix of the paths of the model
Suffix(path) ==
  CASE path \in {"settings.json", "plugins/installed_plugins.json",
                 "plugins/known_marketplaces.json", "skills/demo/config.json"} -> ".json"
    [] path = "CLAUDE.md" -> ".md"
    [] path \in {"history.jsonl", "projects/p1/session.jsonl"} -> ".jsonl"
    [] path = "skills/demo/run.sh" -> ".sh"
    [] OTHER -> ""

\* the optional input (top-level file or subtree) an archive entry belongs to
ItemOf(path) ==
  CASE path \in DirFiles("skills") -> "skills"
    [] path \in DirFiles("projects") -> "projects"
    [] OTHER -> path

\* A file is its bytes (data), whether they decode as UTF-8, and whether the
\* process may open it for reading.
\* a text file holding a credential, and a file that is not valid UTF-8
SecretText ==
  [data |-> <<"{", "\"", "a", "p", "i", "_", "k", "e", "y", "\"", ":", " ", "\"",
              "s", "k", "-", "a", "n", "t", "-", "A", "B", "C", "1", "2", "3", "\"", "}">>,
   utf8 |-> TRUE, readable |-> TRUE]

BinaryBlob ==
  [data |-> <<"\\xff", "s", "k", "-", "a", "n", "t", "-", "x", "y", "z", "7", "8", "9">>,
   utf8 |-> FALSE, readable |-> TRUE]

Bodies == {SecretText, BinaryBlob}

\* every shape of an existing source root: any subset of the top-level files,
\* each directory absent, empty or filled; all files hold the same body
TreesOf(bodies) ==
  UNION { UNION { { [exists |-> TRUE,
                     files |-> F \cup UNION {DirFiles(d) : d \in Full},
                     dirs |-> D,
                     body |-> b] : F \in SUBSET TopFiles, Full \in SUBSET D }
                  : D \in SUBSET Dirs }
          : b \in bodies }

Trees == TreesOf(Bodies)

NoRoot == [exists |-> FALSE, files |-> {}, dirs |-> {}, body |-> BinaryBlob]

\* a directory that does not exist
NoDir == [exists |-> FALSE, files |-> <<>>, manifest |-> <<>>]

\* the file at an output path: "absent", a file "old" that was there before,
\* or a zip written by create_backup ("partial" when the write was cut short)
NoFile == [state |-> "absent", files |-> <<>>, manifest |-> <<>>]

OldFile == [state |-> "old", files |-> <<>>, manifest |-> <<>>]

InitialArchive ==
  [p \in OutputPaths |-> IF p = "old_backup.zip" THEN OldFile ELSE NoFile]

\* the entry names of a zip or of a staging directory
Entries(d) ==
  DOMAIN d.files \cup (IF d.manifest = <<>> THEN {} ELSE {"manifest.json"})

(***************************************************************************)
(* copy_file_with_sanitize and copy_directory_with_sanitize                *)
(***************************************************************************)
TextSuffixes == {".json", ".md", ".txt", ".jsonl"}

\* text mode with newline=None: \r\n and \r are read as \n
UniversalNewlines(data) ==
  LET read == [k \in 1..Len(data) |->
                 IF data[k] # "\r" THEN data[k]
                 ELSE IF k < Len(data) /\ data[k + 1] = "\n" THEN "" ELSE "\n"]
  IN  SelectSeq(read, LAMBDA c : c # "")

\* path.read_text(encoding="utf-8"): the text, or the exception raised
read_text(file) ==
  IF ~ file.readable THEN [raised |-> "PermissionError", text |-> <<>>]
  ELSE IF ~ file.utf8 THEN [raised |-> "UnicodeDecodeError", text |-> <<>>]
  ELSE [raised |-> "none", text |-> UniversalNewlines(file.data)]

\* dest.write_text(text, encoding="utf-8") into a directory the call made
write_text(content) == [data |-> content, utf8 |-> TRUE, readable |-> TRUE]

\* shutil.copy2(src, dest): dest is a copy of src, or src cannot be opened
\* and dest is not created
copy2(file) ==
  IF file.readable
  THEN [raised |-> "none", dest |-> <<file>>]
  ELSE [raised |-> "PermissionError", dest |-> <<>>]

\* `except (UnicodeDecodeError, PermissionError):` of copy_file_with_sanitize
CaughtByCopy == {"UnicodeDecodeError", "PermissionError"}

\* copy_file_with_sanitize(src, dest, sanitize): the exception that leaves
\* the call ("none" if none) and the file written to dest (<<>> if none)
copy_file_with_sanitize(file, suffix, sanitize) ==
  IF sanitize /\ suffix \in TextSuffixes
  THEN LET content == read_text(file)
       IN  IF content.raised = "none"
           THEN [raised |-> "none", dest |-> <<write_text(sanitize_content(content.text))>>]
           ELSE IF content.raised \in CaughtByCopy
                THEN copy2(file)   \* Fall back to binary copy
                ELSE [raised |-> content.raised, dest |-> <<>>]
  ELSE copy2(file)

\* dest.parent.mkdir(parents=True, exist_ok=True), then the write to dest
StageFile(dir, path, file) ==
  [exists |-> TRUE,
   files |-> [q \in DOMAIN dir.files \cup {path} |->
                IF q = path THEN file ELSE dir.files[q]],
   manifest |-> dir.manifest]

\* src.rglob("*") of copy_directory_with_sanitize, one file after the other
RECURSIVE StageFiles(_, _, _, _)
StageFiles(dir, source, paths, sanitize) ==
  IF paths = {} THEN dir
  ELSE LET path == CHOOSE q \in paths : TRUE
       IN  StageFiles(
             StageFile(dir, path,
                       copy_file_with_sanitize(source.body, Suffix(path), sanitize).dest[1]),
             source, paths \ {path}, sanitize)

\* temp_dir.mkdir(parents=True, exist_ok=True), dest.mkdir(parents=True, exist_ok=True)
Mkdir(dir) == [dir EXCEPT !.exists = TRUE]

copy_directory_with_sanitize(dir, source, d, sanitize) ==
  IF d \notin source.dirs
  THEN dir
  ELSE StageFiles(Mkdir(dir), source, DirFiles(d) \cap source.files, sanitize)

\* an input staged without the check that it exists: a missing file is
\* created empty, a missing directory is handed to copy_directory_with_sanitize
CopyItemUnchecked(dir, source, item, sanitize) ==
  IF item \in Dirs
  THEN copy_directory_with_sanitize(Mkdir(dir), source, item, sanitize)
  ELSE StageFile(dir, item,
                 IF item \in source.files
                 THEN copy_file_with_sanitize(source.body, Suffix(item), sanitize).dest[1]
                 ELSE write_text(<<>>))

\* the `if x.exists(): copy ... else: log_warning` of one input of
\* create_backup; for a directory, `x.exists() and any(x.iterdir())`
CopyItem(dir, source, item, sanitize) ==
  IF item \in Dirs
  THEN IF item \in source.dirs /\ DirFiles(item) \cap source.files # {}
       THEN copy_directory_with_sanitize(dir, source, item, sanitize)
       ELSE dir
  ELSE IF item \in source.files
       THEN StageFile(dir, item,
                      copy_file_with_sanitize(source.body, Suffix(item), sanitize).dest[1])
       ELSE dir

\* whether create_backup copies the item (so that copying it can fail)
Copied(source, item) ==
  IF item \in Dirs
  THEN item \in source.dirs /\ DirFiles(item) \cap source.files # {}
  ELSE item \in source.files

\* the first n inputs of a step, in the order of the code
RECURSIVE CopyItems(_, _, _, _, _)
CopyItems(dir, source, items, n, sanitize) ==
  IF n = 0 THEN dir
  ELSE CopyItem(CopyItems(dir, source, items, n - 1, sanitize),
                source, items[n], sanitize)

CoreItems == <<"CLAUDE.md", "settings.json", "skills">>

PluginItems == <<"plugins/installed_plugins.json", "plugins/known_marketplaces.json">>

HistoryItems == <<"history.jsonl", "projects">>

OptionalInputs ==
  {CoreItems[k] : k \in 1..Len(CoreItems)}
    \cup {PluginItems[k] : k \in 1..Len(PluginItems)}
    \cup {HistoryItems[k] : k \in 1..Len(HistoryItems)}

(***************************************************************************)
(* create_backup                                                           *)
(***************************************************************************)
Calls ==
  [output_path : OutputPaths, include_history : BOOLEAN, sanitize : BOOLEAN]

NoCall == [output_path |-> "new_backup.zip", include_history |-> FALSE, sanitize |-> FALSE]

NoOutcome == [kind |-> "none", success |-> FALSE, message |-> ""]

\* return success, message
Returned(success, message) ==
  [kind |-> "returned", success |-> success, message |-> message]

\* the call ends by propagating the exception
Raised(exception) == [kind |-> "raised", success |-> FALSE, message |-> exception]

NotFoundMessage == "Claude directory not found"

\* create_backup without the check of the source root
SourceAssumed(source) == TRUE

\* claude_dir.exists()
SourceFound(source) == source.exists

\* the manifest dict, without the run metadata (created_at, hostname,
\* username, platform, source_dir)
Manifest(c) ==
  [version |-> "1.0.0",
   sanitized |-> c.sanitize,
   include_history |-> c.include_history,
   contents |->
     IF c.include_history
     THEN [core |-> <<"CLAUDE.md", "settings.json", "skills/">>,
           plugins |-> <<"plugins/installed_plugins.json",
                         "plugins/known_marketplaces.json">>,
           history |-> <<"history.jsonl", "projects/">>]
     ELSE [core |-> <<"CLAUDE.md", "settings.json", "skills/">>,
           plugins |-> <<"plugins/installed_plugins.json",
                         "plugins/known_marketplaces.json">>]]

\* the history step entered whatever include_history says
AfterPluginsAlways(c) == "StagingHistory"

\* the step after the plugin files: `if include_history:`
AfterPlugins(c) ==
  IF c.include_history THEN "StagingHistory" ELSE "WritingManifest"

\* os.rmdir in place of shutil.rmtree: only an empty directory is removed
CleanupIfEmpty(stg, t) ==
  IF stg[t].exists /\ Entries(stg[t]) = {} THEN [stg EXCEPT ![t] = NoDir] ELSE stg

\* the finally block: `if temp_dir.exists(): shutil.rmtree(temp_dir)`
Cleanup(stg, t) ==
  IF stg[t].exists THEN [stg EXCEPT ![t] = NoDir] ELSE stg

\* the order in which temp_dir.rglob("*") yields the staged files
EntryOrder ==
  <<"CLAUDE.md", "history.jsonl", "manifest.json", "plugins/installed_plugins.json",
    "plugins/known_marketplaces.json", "projects/p1/session.jsonl", "settings.json",
    "skills/demo/config.json", "skills/demo/run.sh">>

Position(path) == CHOOSE k \in 1..Len(EntryOrder) : EntryOrder[k] = path

\* the zip after zf.write raised at entry `failed`: the entries before it
PartialZip(dir, failed) ==
  LET kept == {q \in DOMAIN dir.files : Position(q) < Position(failed)}
  IN  [state |-> "partial",
       files |-> [q \in kept |-> dir.files[q]],
       manifest |-> IF Position("manifest.json") < Position(failed)
                    THEN dir.manifest ELSE <<>>]

\* the zip written from temp_dir.glob("*"): the files directly under temp_dir
CompleteZipTopLevel(dir) ==
  [state |-> "complete",
   files |-> [q \in {f \in DOMAIN dir.files : f \in {"CLAUDE.md", "settings.json", "history.jsonl"}}
                |-> dir.files[q]],
   manifest |-> dir.manifest]

\* the zip after the `with zipfile.ZipFile(...)` block ran to its end
CompleteZip(dir) ==
  [state |-> "complete", files |-> dir.files, manifest |-> dir.manifest]

(***************************************************************************)
(* The steps of one create_backup invocation i.  A step that can meet an   *)
(* I/O error of the environment (OSError) has a second action, ...Fails,   *)
(* in which the error is raised; every exception raised inside the try     *)
(* block goes through the finally block (CleaningUp) and leaves the call.  *)
(* shutil.rmtree of the finally block is taken to succeed.                 *)
(***************************************************************************)
Goto(i, step) == pc' = [pc EXCEPT ![i] = step]

\* an exception that leaves the call without the finally block
RaiseSkippingFinally(i, exception) ==
  /\ error' = [error EXCEPT ![i] = exception]
  /\ Goto(i, "done")

Raise(i, exception) ==
  /\ error' = [error EXCEPT ![i] = exception]
  /\ Goto(i, "CleaningUp")

\* lines 256-266: the source root check, the timestamp, temp_dir.mkdir
Initializing(i) ==
  /\ pc[i] = "idle"
  /\ i \in pending
  /\ pending' = pending \ {i}
  /\ \E c \in Calls :
       /\ call' = [call EXCEPT ![i] = c]
       /\ IF ~ SourceFound(src)
          THEN /\ outcome' = [outcome EXCEPT ![i] = Returned(FALSE, NotFoundMessage)]
               /\ Goto(i, "done")
               /\ UNCHANGED <<now, temp_dir, staging>>
          ELSE \E t \in now..MaxTime :
                 /\ now' = t
                 /\ temp_dir' = [temp_dir EXCEPT ![i] = t]
                 /\ staging' = [staging EXCEPT ![t] = Mkdir(@)]
                 /\ Goto(i, "StagingCore")
                 /\ UNCHANGED outcome
  /\ UNCHANGED <<src, error, archive, io_error, sanitizer_vars, other_vars>>

\* temp_dir.mkdir raises
InitializingFails(i) ==
  /\ pc[i] = "idle"
  /\ i \in pending
  /\ SourceFound(src)
  /\ pending' = pending \ {i}
  /\ \E c \in Calls, t \in now..MaxTime :
       /\ call' = [call EXCEPT ![i] = c]
       /\ now' = t
       /\ temp_dir' = [temp_dir EXCEPT ![i] = t]
  /\ Raise(i, "OSError")
  /\ io_error' = TRUE
  /\ UNCHANGED <<src, outcome, staging, archive, sanitizer_vars, other_vars>>

\* a copy step that sanitizes the files where they are before copying them
StageSanitizingSource(i, items, next) ==
  /\ src' = IF call[i].sanitize /\ read_text(src.body).raised = "none"
            THEN [src EXCEPT !.body = write_text(sanitize_content(read_text(@).text))]
            ELSE src
  /\ staging' = [staging EXCEPT ![temp_dir[i]] =
                   CopyItems(@, src', items, Len(items), call[i].sanitize)]
  /\ Goto(i, next)
  /\ UNCHANGED <<now, pending, call, temp_dir, error, outcome, archive,
                 io_error, sanitizer_vars, other_vars>>

\* a copy step that runs to its end
Stage(i, items, next) ==
  /\ staging' = [staging EXCEPT ![temp_dir[i]] =
                   CopyItems(@, src, items, Len(items), call[i].sanitize)]
  /\ Goto(i, next)
  /\ UNCHANGED <<src, now, pending, call, temp_dir, error, outcome, archive,
                 io_error, sanitizer_vars, other_vars>>

\* a copy step in which copying the k-th input raises
StageFails(i, items) ==
  /\ \E k \in 1..Len(items) :
       /\ Copied(src, items[k])
       /\ staging' = [staging EXCEPT ![temp_dir[i]] =
                        CopyItems(@, src, items, k - 1, call[i].sanitize)]
  /\ Raise(i, "OSError")
  /\ io_error' = TRUE
  /\ UNCHANGED <<src, now, pending, call, temp_dir, outcome, archive, sanitizer_vars, other_vars>>

\* lines 268-301
StagingCore(i) ==
  /\ pc[i] = "StagingCore"
  /\ Stage(i, CoreItems, "StagingPlugins")

StagingCoreFails(i) ==
  /\ pc[i] = "StagingCore"
  /\ StageFails(i, CoreItems)

\* lines 314-323: installed_plugins.read_text(encoding="utf-8") to count the
\* plugins; only json.JSONDecodeError and KeyError are caught
PluginCountRaises(source) ==
  /\ "plugins/installed_plugins.json" \in source.files
  /\ ~ source.body.utf8

\* lines 303-339
StagingPlugins(i) ==
  /\ pc[i] = "StagingPlugins"
  /\ IF PluginCountRaises(src)
     THEN /\ staging' = [staging EXCEPT ![temp_dir[i]] =
                           CopyItems(@, src, PluginItems, 1, call[i].sanitize)]
          /\ Raise(i, "UnicodeDecodeError")
     ELSE /\ staging' = [staging EXCEPT ![temp_dir[i]] =
                           CopyItems(@, src, PluginItems, Len(PluginItems),
                                     call[i].sanitize)]
          /\ Goto(i, AfterPlugins(call[i]))
          /\ UNCHANGED error
  /\ UNCHANGED <<src, now, pending, call, temp_dir, outcome, archive, io_error,
                 sanitizer_vars, other_vars>>

StagingPluginsFails(i) ==
  /\ pc[i] = "StagingPlugins"
  /\ ~ PluginCountRaises(src)
  /\ StageFails(i, PluginItems)

\* lines 341-373
StagingHistory(i) ==
  /\ pc[i] = "StagingHistory"
  /\ Stage(i, HistoryItems, "WritingManifest")

StagingHistoryFails(i) ==
  /\ pc[i] = "StagingHistory"
  /\ StageFails(i, HistoryItems)

\* lines 375-411: manifest_path.write_text creates no parent directory
WritingManifest(i) ==
  /\ pc[i] = "WritingManifest"
  /\ IF staging[temp_dir[i]].exists
     THEN /\ staging' = [staging EXCEPT ![temp_dir[i]].manifest = <<Manifest(call[i])>>]
          /\ Goto(i, "Compressing")
          /\ UNCHANGED error
     ELSE /\ Raise(i, "FileNotFoundError")
          /\ UNCHANGED staging
  /\ UNCHANGED <<src, now, pending, call, temp_dir, outcome, archive, io_error,
                 sanitizer_vars, other_vars>>

WritingManifestFails(i) ==
  /\ pc[i] = "WritingManifest"
  /\ Raise(i, "OSError")
  /\ io_error' = TRUE
  /\ UNCHANGED <<src, now, pending, call, temp_dir, outcome, staging, archive,
                 sanitizer_vars, other_vars>>

\* lines 413-426: the zip is written from whatever temp_dir holds now
Compressing(i) ==
  /\ pc[i] = "Compressing"
  /\ archive' = [archive EXCEPT ![call[i].output_path] =
                   CompleteZip(staging[temp_dir[i]])]
  /\ Goto(i, "CleaningUp")
  /\ UNCHANGED <<src, now, pending, call, temp_dir, error, outcome, staging,
                 io_error, sanitizer_vars, other_vars>>

\* zipfile.ZipFile(output_path, "w") raises (the destination is unwritable),
\* or zf.write raises at one of the entries
CompressingFails(i) ==
  /\ pc[i] = "Compressing"
  /\ \/ UNCHANGED archive
     \/ \E failed \in Entries(staging[temp_dir[i]]) :
          archive' = [archive EXCEPT ![call[i].output_path] =
                        PartialZip(staging[temp_dir[i]], failed)]
  /\ Raise(i, "OSError")
  /\ io_error' = TRUE
  /\ UNCHANGED <<src, now, pending, call, temp_dir, outcome, staging, sanitizer_vars, other_vars>>

\* a failure path that also unlinks the destination file
CleaningUpRemovingArchive(i) ==
  /\ pc[i] = "CleaningUp"
  /\ staging' = Cleanup(staging, temp_dir[i])
  /\ archive' = IF error[i] = "none" THEN archive
                ELSE [archive EXCEPT ![call[i].output_path] = NoFile]
  /\ outcome' = [outcome EXCEPT ![i] =
                   IF error[i] = "none"
                   THEN Returned(TRUE, call[i].output_path)
                   ELSE Raised(error[i])]
  /\ Goto(i, "done")
  /\ UNCHANGED <<src, now, pending, call, temp_dir, error, io_error,
                 sanitizer_vars, other_vars>>

\* lines 428-431, then the return or the propagation of the exception
CleaningUp(i) ==
  /\ pc[i] = "CleaningUp"
  /\ staging' = Cleanup(staging, temp_dir[i])
  /\ outcome' = [outcome EXCEPT ![i] =
                   IF error[i] = "none"
                   THEN Returned(TRUE, call[i].output_path)
                   ELSE Raised(error[i])]
  /\ Goto(i, "done")
  /\ UNCHANGED <<src, now, pending, call, temp_dir, error, archive, io_error,
                 sanitizer_vars, other_vars>>

Run(i) ==
  \/ Initializing(i)
  \/ StagingCore(i)
  \/ StagingPlugins(i)
  \/ StagingHistory(i)
  \/ WritingManifest(i)
  \/ Compressing(i)
  \/ CleaningUp(i)

Fail(i) ==
  \/ InitializingFails(i)
  \/ StagingCoreFails(i)
  \/ StagingPluginsFails(i)
  \/ StagingHistoryFails(i)
  \/ WritingManifestFails(i)
  \/ CompressingFails(i)

NoCopy == [file |-> BinaryBlob, suffix |-> "", sanitize |-> FALSE]

NoResult == [raised |-> "off", dest |-> <<>>]

CopyIdle ==
  /\ copy_in = NoCopy
  /\ copy_out = NoResult

ScanIdle ==
  /\ scan_pc = "off"
  /\ files_to_scan = <<>>
  /\ results = <<>>

TuiIdle ==
  /\ worker = [w \in Invocations |-> "none"]
  /\ loop = 0
  /\ quit = FALSE

OthersIdle == CopyIdle /\ ScanIdle /\ TuiIdle

SanitizerIdle ==
  /\ text = <<>>
  /\ phase = "off"
  /\ sanitized = <<>>
  /\ resanitized = <<>>
  /\ findings = <<>>

PipelineInit ==
  /\ now = 1
  /\ pc = [i \in Invocations |-> "idle"]
  /\ call = [i \in Invocations |-> NoCall]
  /\ temp_dir = [i \in Invocations |-> 0]
  /\ error = [i \in Invocations |-> "none"]
  /\ outcome = [i \in Invocations |-> NoOutcome]
  /\ staging = [t \in Timestamps |-> NoDir]
  /\ archive = InitialArchive
  /\ io_error = FALSE

\* One call of create_backup (the command line: one process, one call) on any
\* source root, with any arguments, in an environment that may fail an I/O call.
Init ==
  /\ src \in Trees \cup {NoRoot}
  /\ pending = {1}
  /\ PipelineInit
  /\ SanitizerIdle
  /\ OthersIdle

Next == \E i \in Invocations : Run(i) \/ Fail(i)

Spec == Init /\ [][Next]_vars

\* Calls of create_backup that overlap in time (two processes, or two threads
\* of a front-end), on a source root that holds every input; no I/O errors.
FullTrees == {s \in Trees : s.files = TopFiles \cup DirFiles("skills") \cup DirFiles("projects")}

InitConc ==
  /\ src \in FullTrees
  /\ pending = Invocations
  /\ PipelineInit
  /\ SanitizerIdle
  /\ OthersIdle

NextConc == \E i \in Invocations : Run(i)

SpecConc == InitConc /\ [][NextConc]_vars

(***************************************************************************)
(* Runs of the sanitizer and of the detector on a text.  The texts are the *)
(* concatenations of at most MaxFrags fragments.                           *)
(***************************************************************************)
MaxFrags == 3

Fragments ==
  { <<"\"", "t", "o", "k", "e", "n", "\"", ":", " ", "\"", "o">>,        \* "token": "o
    <<"\"", "t", "o", "k", "e", "n", "\"", ":", " ", "\"", "x">>,        \* "token": "x
    <<"\"">>,
    <<"\"", "a", "p", "i", "_", "k", "e", "y", "\"", ":", " ", "\"", "a">>,   \* "api_key": "a
    SecretText.data,                                                     \* {"api_key": "sk-ant-ABC123"}
    <<"t", "o", "k", "e", "n", " ", "i", "s", " ">>,                     \* token is
    <<"s", "k", "-", "a", "n", "t", "-", "x", "y", "z", "7", "8", "9">>, \* sk-ant-xyz789
    <<" ", "i", "n", " ", "h", "e", "a", "d", "e", "r">>,                \*  in header
    <<"s", "k", "-", "a", "n", "t", "-">>,                               \* sk-ant-
    <<"<", "Y", "O", "U", "R", "_", "T", "O", "K", "E", "N", ">">>,      \* <YOUR_TOKEN>
    <<"\"", "s", "e", "c", "r", "e", "t", "\"", ":", " ", "\"", "<">> }    \* "secret": "<

RECURSIVE Texts(_)
Texts(n) ==
  IF n = 0 THEN {<<>>}
  ELSE Texts(n - 1) \cup {f \o t : f \in Fragments, t \in Texts(n - 1)}

PipelineIdle ==
  /\ src = NoRoot
  /\ pending = {}
  /\ PipelineInit

InitSan ==
  /\ text \in Texts(MaxFrags)
  /\ phase = "input"
  /\ sanitized = <<>>
  /\ resanitized = <<>>
  /\ findings = <<>>
  /\ PipelineIdle
  /\ OthersIdle

\* sanitized = sanitize_content(text)
Sanitize ==
  /\ phase = "input"
  /\ sanitized' = sanitize_content(text)
  /\ phase' = "sanitized"
  /\ UNCHANGED <<text, resanitized, findings, pipeline_vars, other_vars>>

\* a second pass over the output of the first
SanitizeAgain ==
  /\ phase = "sanitized"
  /\ resanitized' = sanitize_content(sanitized)
  /\ phase' = "resanitized"
  /\ UNCHANGED <<text, sanitized, findings, pipeline_vars, other_vars>>

\* the detector over the output of the sanitizer
Detect ==
  /\ phase = "sanitized"
  /\ findings' = detect_sensitive(sanitized)
  /\ phase' = "scanned"
  /\ UNCHANGED <<text, sanitized, resanitized, pipeline_vars, other_vars>>

\* the detector over the text as it is
DetectInput ==
  /\ phase = "input"
  /\ findings' = detect_sensitive(text)
  /\ phase' = "detected"
  /\ UNCHANGED <<text, sanitized, resanitized, pipeline_vars, other_vars>>

NextSan == Sanitize \/ SanitizeAgain \/ Detect \/ DetectInput

SpecSan == InitSan /\ [][NextSan]_vars

(***************************************************************************)
(* Runs of copy_file_with_sanitize on one file: any of the bodies below,   *)
(* decodable or not, readable or not, under any suffix, with and without   *)
(* sanitize.                                                               *)
(***************************************************************************)
CopyData ==
  { SecretText.data,
    BinaryBlob.data,
    <<"#", " ", "n", "o", "t", "e", "s", "\r", "\n", "o", "k", "\n">>,
    <<"o", "k">>,
    <<>> }

\* whether the bytes are valid UTF-8: the byte 0xff never is
Decodable(data) == \A k \in 1..Len(data) : data[k] # "\\xff"

CopyFiles ==
  {[data |-> d, utf8 |-> Decodable(d), readable |-> r] : d \in CopyData, r \in BOOLEAN}

CopySuffixes == TextSuffixes \cup {".sh", ""}

InitCopy ==
  /\ copy_in \in [file : CopyFiles, suffix : CopySuffixes, sanitize : BOOLEAN]
  /\ copy_out = NoResult
  /\ PipelineIdle
  /\ SanitizerIdle
  /\ ScanIdle
  /\ TuiIdle

Copy ==
  /\ copy_out = NoResult
  /\ copy_out' = copy_file_with_sanitize(copy_in.file, copy_in.suffix, copy_in.sanitize)
  /\ UNCHANGED <<copy_in, pipeline_vars, sanitizer_vars, scan_vars, tui_vars>>

NextCopy == Copy

SpecCopy == InitCopy /\ [][NextCopy]_vars

(***************************************************************************)
(* Runs of scan_for_sensitive (the scan-only mode) on a source root whose  *)
(* files hold a credential, are not valid UTF-8, or cannot be opened.      *)
(***************************************************************************)
\* a file with a credential that the process may not open
LockedText == [data |-> SecretText.data, utf8 |-> TRUE, readable |-> FALSE]

ScanTrees == TreesOf(Bodies \cup {LockedText})

\* `except (UnicodeDecodeError, PermissionError): return []`, without PermissionError
CaughtDecodeErrorOnly == {"UnicodeDecodeError"}

\* `except (UnicodeDecodeError, PermissionError): return []`
CaughtByDetector == {"UnicodeDecodeError", "PermissionError"}

\* detect_sensitive_in_file(claude_dir / path): the exception that leaves
\* the call ("none" if none) and the findings returned
detect_sensitive_in_file(source, path) ==
  IF path \notin source.files
  THEN [raised |-> "none", findings |-> <<>>]
  ELSE LET content == read_text(source.body)
       IN  IF content.raised = "none"
           THEN [raised |-> "none", findings |-> detect_sensitive(content.text)]
           ELSE IF content.raised \in CaughtByDetector
                THEN [raised |-> "none", findings |-> <<>>]
                ELSE [raised |-> content.raised, findings |-> <<>>]

\* lines 183-195: settings.json, CLAUDE.md and the config.json of every skill
FilesToScan(source) ==
  <<"settings.json", "CLAUDE.md">>
    \o (IF "skills" \in source.dirs /\ "skills/demo/config.json" \in source.files
        THEN <<"skills/demo/config.json">> ELSE <<>>)

InitScan ==
  /\ src \in ScanTrees \cup {NoRoot}
  /\ pending = {}
  /\ PipelineInit
  /\ SanitizerIdle
  /\ CopyIdle
  /\ TuiIdle
  /\ scan_pc = "idle"
  /\ files_to_scan = <<>>
  /\ results = <<>>

\* lines 180-195
ScanStart ==
  /\ scan_pc = "idle"
  /\ files_to_scan' = FilesToScan(src)
  /\ scan_pc' = "scanning"
  /\ UNCHANGED <<results, pipeline_vars, sanitizer_vars, copy_vars, tui_vars>>

\* lines 197-203: one turn of the loop, and the return after the last
ScanFile ==
  /\ scan_pc = "scanning"
  /\ files_to_scan # <<>>
  /\ LET file_path == Head(files_to_scan)
         found == detect_sensitive_in_file(src, file_path)
     IN  IF file_path \in src.files /\ found.raised # "none"
         THEN /\ scan_pc' = "raised"
              /\ UNCHANGED <<files_to_scan, results>>
         ELSE /\ results' = IF file_path \in src.files /\ found.findings # <<>>
                            THEN results @@ (file_path :> found.findings)
                            ELSE results
              /\ files_to_scan' = Tail(files_to_scan)
              /\ scan_pc' = IF Tail(files_to_scan) = <<>> THEN "done" ELSE "scanning"
  /\ UNCHANGED <<pipeline_vars, sanitizer_vars, copy_vars, tui_vars>>

NextScan == ScanStart \/ ScanFile

SpecScan == InitScan /\ [][NextScan]_vars

(***************************************************************************)
(* The TUI front-end.  action_backup hands the coroutine _do_backup to     *)
(* run_worker(..., exclusive=True): the worker is a task of the            *)
(* application's event loop, and starting it cancels the workers of the    *)
(* group that have not finished.  A task is cancelled where it is          *)
(* suspended: before its first step or at an await.  _do_backup awaits     *)
(* twice (asyncio.sleep) and then calls create_backup as an ordinary       *)
(* function: until the call returns the event loop runs nothing else, no   *)
(* key or button is handled.  Worker w makes invocation w of create_backup.*)
(***************************************************************************)
\* the states in which a worker can still be cancelled
Unfinished == {"pending", "sleep1", "sleep2", "calling"}

\* a worker run in a thread: the event loop is free while create_backup runs
LoopNeverBlocked == TRUE

\* the event loop is between two callbacks: it can handle a key or a button,
\* or resume a task
LoopFree == loop = 0

\* Worker.cancel() of every unfinished worker
CancelAll(ws) ==
  [w \in Invocations |-> IF ws[w] \in Unfinished THEN "cancelled" ELSE ws[w]]

\* key b or the Backup button: run_worker(self._do_backup(), exclusive=True)
action_backup(w) ==
  /\ LoopFree
  /\ ~ quit
  /\ worker[w] = "none"
  /\ \A v \in 1..(w - 1) : worker[v] # "none"
  /\ worker' = [CancelAll(worker) EXCEPT ![w] = "pending"]
  /\ UNCHANGED <<loop, quit, pipeline_vars, sanitizer_vars, copy_vars, scan_vars>>

\* key q or the Quit button: self.exit(), which cancels the workers
action_quit ==
  /\ LoopFree
  /\ ~ quit
  /\ quit' = TRUE
  /\ worker' = CancelAll(worker)
  /\ UNCHANGED <<loop, pipeline_vars, sanitizer_vars, copy_vars, scan_vars>>

\* _do_backup runs up to its next await: lines 341-359, then lines 361-367
Resume(w) ==
  /\ LoopFree
  /\ ~ quit
  /\ worker[w] \in {"pending", "sleep1"}
  /\ worker' = [worker EXCEPT ![w] = IF @ = "pending" THEN "sleep1" ELSE "sleep2"]
  /\ UNCHANGED <<loop, quit, pipeline_vars, sanitizer_vars, copy_vars, scan_vars>>

\* lines 370-375: resumed after the second sleep, _do_backup calls create_backup
CallCore(w) ==
  /\ LoopFree
  /\ ~ quit
  /\ worker[w] = "sleep2"
  /\ worker' = [worker EXCEPT ![w] = "calling"]
  /\ loop' = w
  /\ pending' = pending \cup {w}
  /\ UNCHANGED <<quit, src, now, pc, call, temp_dir, error, outcome, staging, archive,
                 io_error, sanitizer_vars, copy_vars, scan_vars>>

\* lines 377-408: create_backup returned or raised (`except Exception`); the
\* coroutine reports and returns without another await
Finish(w) ==
  /\ worker[w] = "calling"
  /\ pc[w] = "done"
  /\ worker' = [worker EXCEPT ![w] = IF @ = "calling" THEN "finished" ELSE @]
  /\ loop' = IF loop = w THEN 0 ELSE loop
  /\ UNCHANGED <<quit, pipeline_vars, sanitizer_vars, copy_vars, scan_vars>>

\* a source root with one input of each copy step, and the missing root
TuiTrees ==
  {s \in Trees : /\ s.body = SecretText
                 /\ s.dirs = {}
                 /\ s.files = {"settings.json", "plugins/known_marketplaces.json",
                               "history.jsonl"}}
    \cup {NoRoot}

InitTui ==
  /\ src \in TuiTrees
  /\ pending = {}
  /\ PipelineInit
  /\ SanitizerIdle
  /\ CopyIdle
  /\ ScanIdle
  /\ TuiIdle

NextTui ==
  \/ action_quit
  \/ \E w \in Invocations :
       \/ action_backup(w)
       \/ Resume(w)
       \/ CallCore(w)
       \/ Run(w)
       \/ Fail(w)
       \/ Finish(w)

SpecTui == InitTui /\ [][NextTui]_vars

(***************************************************************************)
(* Properties of create_backup.                                            *)
(***************************************************************************)
Done(i) == pc[i] = "done"

Succeeded(i) == Done(i) /\ outcome[i] = Returned(TRUE, call[i].output_path)

\* the input is not in the source root
Absent(source, item) ==
  IF item \in Dirs THEN item \notin source.dirs ELSE item \notin source.files

\* C1: once a create_backup call has returned or raised, the staging
\* directory it created is not on disk, whichever step it stopped at.
CleanupGuarantee ==
  \A i \in Invocations :
    (Done(i) /\ temp_dir[i] # 0) => ~ staging[temp_dir[i]].exists

\* a call that raised while compressing, after a part of the zip was written
CleanupAfterFailedCompress ==
  \E i \in Invocations :
    /\ Done(i)
    /\ outcome[i] = Raised("OSError")
    /\ archive[call[i].output_path].state = "partial"
    /\ ~ staging[temp_dir[i]].exists

\* C2: every unrecoverable failure after the source root was found ends the
\* call with the pair (False, message); no exception leaves the call.
FailureIsReturned ==
  \A i \in Invocations :
    (Done(i) /\ SourceFound(src)) =>
      /\ outcome[i].kind = "returned"
      /\ outcome[i].success <=> error[i] = "none"

\* C3: with no source root the call returns (False, message) at once: no
\* staging directory, nothing copied, the destination not touched.
SourceNotFoundIsClean ==
  \A i \in Invocations :
    (pc[i] # "idle" /\ ~ src.exists) =>
      /\ Done(i)
      /\ outcome[i] = Returned(FALSE, NotFoundMessage)
      /\ temp_dir[i] = 0
      /\ \A t \in Timestamps : staging[t] = NoDir
      /\ archive = InitialArchive

SourceNotFoundReturned ==
  \E i \in Invocations : Done(i) /\ ~ src.exists /\ ~ outcome[i].success

\* C4: whatever optional inputs are absent from an existing source root, the
\* call returns (True, output_path) and the archive holds no entry of an
\* absent input.  (The calls meant are those the environment fails no I/O
\* call of and whose installed_plugins.json, if there, decodes.)
OptionalInputsTolerated ==
  \A i \in Invocations :
    (Done(i) /\ src.exists /\ ~ io_error /\ ~ PluginCountRaises(src)) =>
      /\ outcome[i] = Returned(TRUE, call[i].output_path)
      /\ archive[call[i].output_path].state = "complete"
      /\ \A item \in OptionalInputs :
           Absent(src, item) =>
             \A e \in Entries(archive[call[i].output_path]) : ItemOf(e) # item

\* the spec's example: skills/ and history.jsonl are missing
BackupWithoutSkillsAndHistory ==
  \E i \in Invocations :
    /\ Succeeded(i)
    /\ call[i].include_history
    /\ Absent(src, "skills")
    /\ Absent(src, "history.jsonl")
    /\ ~ Absent(src, "settings.json")
    /\ "settings.json" \in Entries(archive[call[i].output_path])

\* C5: the history step is entered only with include_history; without it the
\* manifest has no "history" key and the archive no history.jsonl or
\* projects/ entry even if the source has them; with it the manifest has the
\* key whether or not those inputs exist.
HistoryOnlyOnRequest ==
  \A i \in Invocations :
    /\ pc[i] = "StagingHistory" => call[i].include_history
    /\ Succeeded(i) =>
         LET zip == archive[call[i].output_path]
         IN  /\ zip.manifest # <<>>
             /\ "history" \in DOMAIN zip.manifest[1].contents <=> call[i].include_history
             /\ ~ call[i].include_history =>
                  \A e \in Entries(zip) : ItemOf(e) \notin {"history.jsonl", "projects"}

HistoryLeftOut ==
  \E i \in Invocations :
    /\ Succeeded(i)
    /\ ~ call[i].include_history
    /\ "history.jsonl" \in src.files
    /\ "projects/p1/session.jsonl" \in src.files
    /\ "CLAUDE.md" \in Entries(archive[call[i].output_path])

\* C6: two invocations that overlap in time never use the same staging
\* directory.
InFlight(i) == pc[i] \notin {"idle", "done"}

StagingNeverShared ==
  \A i, j \in Invocations :
    (i # j /\ InFlight(i) /\ InFlight(j)) => temp_dir[i] # temp_dir[j]

(***************************************************************************)
(* Properties of sanitize_content and of the detector.                     *)
(***************************************************************************)
KeyValuePatterns == {k \in 1..Len(SENSITIVE_PATTERNS) : SENSITIVE_PATTERNS[k].group}

\* every place of t at which a key-value pattern matches
KeyValueMatches(t) ==
  {km \in KeyValuePatterns \X (1..Len(t)) : MatchAt(SENSITIVE_PATTERNS[km[1]], t, km[2]).end # 0}

SkAnt == <<"s", "k", "-", "a", "n", "t", "-">>

\* t[i..j] is a bare token: sk-ant- and the longest run of token characters
\* after it, not itself inside a longer token that starts earlier
IsToken(t, i, j) ==
  /\ StartsWithAt(t, i, SkAnt)
  /\ i + Len(SkAnt) <= j /\ j <= Len(t)
  /\ \A r \in (i + Len(SkAnt))..j : t[r] \in TokenChars
  /\ j = Len(t) \/ t[j + 1] \notin TokenChars
  /\ ~ \E h \in 1..(i - 1) :
         /\ StartsWithAt(t, h, SkAnt)
         /\ \A r \in (h + Len(SkAnt))..i : t[r] \in TokenChars

Tokens(t) == {ij \in (1..Len(t)) \X (1..Len(t)) : IsToken(t, ij[1], ij[2])}

\* no key-value match of t overlaps t[i..j]
OutsideKeyValue(t, i, j) ==
  \A km \in KeyValueMatches(t) :
    \/ MatchAt(SENSITIVE_PATTERNS[km[1]], t, km[2]).end < i
    \/ km[2] > j

YOUR_ANTHROPIC_TOKEN ==
  <<"<", "Y", "O", "U", "R", "_", "A", "N", "T", "H", "R", "O", "P", "I", "C", "_",
    "T", "O", "K", "E", "N", ">">>

\* C7: sanitize_content is idempotent.
Idempotent == phase = "resanitized" => resanitized = sanitized

\* C8: the detector finds nothing in the output of sanitize_content.
NoFindingsAfterSanitize == phase = "scanned" => findings = <<>>

\* C9: of a key-value match, sanitize_content replaces the captured value
\* and nothing else.  Stated for the texts with one key-value match and no
\* bare token outside its value: the output is the text with the value
\* replaced by the placeholder.
OnlyValueReplaced ==
  phase = "sanitized" =>
    \A km \in KeyValueMatches(text) :
      LET p == SENSITIVE_PATTERNS[km[1]]
          m == MatchAt(p, text, km[2])
      IN  (/\ KeyValueMatches(text) = {km}
           /\ \A ij \in Tokens(text) : m.gs <= ij[1] /\ ij[2] <= m.ge)
          => sanitized = SubSeq(text, 1, m.gs - 1) \o Placeholder(p.name)
                           \o SubSeq(text, m.ge + 1, Len(text))

\* C10: a bare token outside any key-value match is replaced as a whole by
\* <YOUR_ANTHROPIC_TOKEN>, and the replacement touches nothing before or
\* after it: the output is the sanitized text before the token, the
\* placeholder, the sanitized text after the token; where the text has no
\* key-value match and no other token, that is the text before, the
\* placeholder, the text after.
BareTokenReplaced ==
  phase = "sanitized" =>
    \A ij \in Tokens(text) :
      LET before == SubSeq(text, 1, ij[1] - 1)
          after == SubSeq(text, ij[2] + 1, Len(text))
      IN  /\ OutsideKeyValue(text, ij[1], ij[2]) =>
               sanitized = sanitize_content(before) \o YOUR_ANTHROPIC_TOKEN
                             \o sanitize_content(after)
          /\ (KeyValueMatches(text) = {} /\ Tokens(text) = {ij}) =>
               sanitized = before \o YOUR_ANTHROPIC_TOKEN \o after

\* the spec's example: token is sk-ant-xyz789 in header
BareTokenExample ==
  /\ phase = "sanitized"
  /\ text = <<"t", "o", "k", "e", "n", " ", "i", "s", " ", "s", "k", "-", "a", "n", "t",
              "-", "x", "y", "z", "7", "8", "9", " ", "i", "n", " ", "h", "e", "a", "d",
              "e", "r">>
  /\ sanitized = <<"t", "o", "k", "e", "n", " ", "i", "s", " ", "<", "Y", "O", "U", "R",
                   "_", "A", "N", "T", "H", "R", "O", "P", "I", "C", "_", "T", "O", "K",
                   "E", "N", ">", " ", "i", "n", " ", "h", "e", "a", "d", "e", "r">>

(***************************************************************************)
(* Properties of copy_file_with_sanitize.                                  *)
(***************************************************************************)
Recognized(suffix) == suffix \in {".json", ".md", ".txt", ".jsonl"}

\* C11: copy_file_with_sanitize writes sanitize_content(source text) to dest
\* only when sanitize is set, the suffix is recognized and the file decodes;
\* with sanitize off or an unrecognized suffix (and a source that can be
\* opened), and on a decode failure or a permission error under a recognized
\* suffix, dest is a byte-identical copy of the source and no exception
\* leaves the call.
CopyContract ==
  copy_out # NoResult =>
    LET file == copy_in.file
        decodes == file.readable /\ file.utf8
        sanitizing == copy_in.sanitize /\ Recognized(copy_in.suffix)
    IN  /\ (sanitizing /\ decodes) =>
             /\ copy_out.raised = "none"
             /\ copy_out.dest = <<write_text(sanitize_content(read_text(file).text))>>
        /\ ((~ sanitizing /\ file.readable) \/ (sanitizing /\ ~ decodes)) =>
             /\ copy_out.raised = "none"
             /\ copy_out.dest = <<file>>

(***************************************************************************)
(* Properties of the detector's filter.                                    *)
(***************************************************************************)
\* every (pattern name, captured value) that re.findall yields on t
Candidates(t) ==
  UNION { LET matches == ReFindAll(SENSITIVE_PATTERNS[k], t)
          IN  {<<SENSITIVE_PATTERNS[k].name, matches[n]>> : n \in 1..Len(matches)}
          : k \in 1..Len(SENSITIVE_PATTERNS) }

\* the value both starts with < and ends with >
PlaceholderShaped(value) ==
  value # <<>> /\ value[1] = "<" /\ value[Len(value)] = ">"

\* C12: the detector reports a captured value exactly when it is non-empty
\* and not placeholder-shaped (starting with < and ending with >): a value
\* that only starts with < is reported, and nothing empty or of the form
\* <...> is.
ReportedUnlessPlaceholder ==
  phase = "detected" =>
    {findings[n] : n \in 1..Len(findings)}
      = {c \in Candidates(text) : c[2] # <<>> /\ ~ PlaceholderShaped(c[2])}

(***************************************************************************)
(* Properties of the order of the steps of create_backup.                  *)
(***************************************************************************)
\* the step that follows `step` in invocation i when `step` raises nothing
Successor(i, step) ==
  CASE step = "StagingCore" -> "StagingPlugins"
    [] step = "StagingPlugins" ->
         IF call[i].include_history THEN "StagingHistory" ELSE "WritingManifest"
    [] step = "StagingHistory" -> "WritingManifest"
    [] step = "WritingManifest" -> "Compressing"
    [] step = "Compressing" -> "CleaningUp"
    [] step = "CleaningUp" -> "done"
    [] OTHER -> "none"

\* a step of invocation i goes to the next step of the order, or (when it
\* raises) to CleaningUp; only CleaningUp ends a call that made its staging
\* directory
InOrder(i) ==
  pc'[i] # pc[i] =>
    IF pc[i] = "idle"
    THEN pc'[i] \in {"StagingCore", "CleaningUp"} \/ (pc'[i] = "done" /\ ~ src.exists)
    ELSE pc'[i] \in {Successor(i, pc[i]), "CleaningUp"}

\* a manifest appears in a staging directory only by the WritingManifest
\* step of the invocation that owns it, and only where none was
WrittenOnce ==
  \A t \in Timestamps :
    (staging'[t].manifest # staging[t].manifest /\ staging'[t].manifest # <<>>) =>
      \E i \in Invocations :
        /\ temp_dir[i] = t
        /\ pc[i] = "WritingManifest" /\ pc'[i] = "Compressing"
        /\ staging[t].manifest = <<>>
        /\ staging'[t].manifest = <<Manifest(call[i])>>

\* compression starts with the manifest written; before WritingManifest the
\* staging directory holds none
ManifestBeforeCompressing ==
  \A i \in Invocations :
    /\ pc[i] = "Compressing" => staging[temp_dir[i]].manifest = <<Manifest(call[i])>>
    /\ pc[i] \in {"StagingCore", "StagingPlugins", "StagingHistory", "WritingManifest"} =>
         staging[temp_dir[i]].manifest = <<>>

\* C13: the steps of a create_backup run occur in the order StagingCore,
\* StagingPlugins, StagingHistory (only with include_history),
\* WritingManifest, Compressing, CleaningUp; the manifest is written once,
\* after the copy steps and before compression, whatever inputs were found;
\* CleaningUp is the last step before the call ends, returning or raising.
StepOrder ==
  /\ []ManifestBeforeCompressing
  /\ [][WrittenOnce /\ \A i \in Invocations : InOrder(i)]_vars

\* a backup of an empty source root: every input skipped, manifest archived
ManifestOfEmptyRoot ==
  \E i \in Invocations :
    /\ Succeeded(i)
    /\ call[i].include_history
    /\ src.files = {}
    /\ archive[call[i].output_path].manifest = <<Manifest(call[i])>>

(***************************************************************************)
(* Properties of the archive.                                              *)
(***************************************************************************)
\* the inputs a call with arguments c looks for
Attempted(c) ==
  {"CLAUDE.md", "settings.json", "skills", "plugins/installed_plugins.json",
   "plugins/known_marketplaces.json"}
    \cup (IF c.include_history THEN {"history.jsonl", "projects"} ELSE {})

\* manifest.json and the files of the source root under an attempted input
ExpectedEntries(source, c) ==
  {"manifest.json"} \cup {f \in source.files : ItemOf(f) \in Attempted(c)}

\* the Compressing step of i that raises nothing archives what staging holds
ArchivesStaging(i) ==
  (pc[i] = "Compressing" /\ pc'[i] = "CleaningUp" /\ error'[i] = "none") =>
    /\ Entries(archive'[call[i].output_path]) = Entries(staging[temp_dir[i]])
    /\ archive'[call[i].output_path].files = staging[temp_dir[i]].files

\* C14: on success the archive's entries are exactly the files the call
\* staged, named relative to the staging root: manifest.json and, for every
\* attempted input that exists in the source root, its files; no staged file
\* is left out and nothing else is in the archive.
ArchiveIsStaging ==
  /\ [](\A i \in Invocations :
          Succeeded(i) =>
            Entries(archive[call[i].output_path]) = ExpectedEntries(src, call[i]))
  /\ [][\A i \in Invocations : ArchivesStaging(i)]_vars

\* a backup with history of a source root that holds every input
FullArchive ==
  \E i \in Invocations :
    /\ Succeeded(i)
    /\ Entries(archive[call[i].output_path])
         = {"manifest.json"} \cup TopFiles \cup DirFiles("skills") \cup DirFiles("projects")

(***************************************************************************)
(* Properties of a failed Compressing step.                                *)
(***************************************************************************)
\* C15: when Compressing fails partway, the staging directory is still
\* removed and the partly written archive stays at the destination as it
\* is: the failure path neither deletes nor rewrites it.
PartialArchiveLeft ==
  /\ [](\A i \in Invocations :
          (Done(i) /\ archive[call[i].output_path].state = "partial") =>
            /\ outcome[i] = Raised("OSError")
            /\ ~ staging[temp_dir[i]].exists)
  /\ [][\A p \in OutputPaths :
          archive[p].state = "partial" => archive'[p] = archive[p]]_vars

\* the call raised after CLAUDE.md went into the zip; zip left, staging gone
PartialArchiveWithEntries ==
  \E i \in Invocations :
    /\ Done(i)
    /\ outcome[i].kind = "raised"
    /\ archive[call[i].output_path].state = "partial"
    /\ "CLAUDE.md" \in Entries(archive[call[i].output_path])
    /\ \A t \in Timestamps : ~ staging[t].exists

(***************************************************************************)
(* Properties of the scan-only path.                                       *)
(***************************************************************************)
\* C16: scan_for_sensitive and detect_sensitive_in_file are read-only: on
\* every source tree, with files missing, undecodable or unreadable, no step
\* changes the source tree, a staging directory or an archive; and a file
\* that does not decode or cannot be opened gives no findings, not an error.
ScanIsReadOnly ==
  /\ [](/\ scan_pc # "raised"
        /\ \A t \in Timestamps : staging[t] = NoDir
        /\ archive = InitialArchive
        /\ (scan_pc = "done" /\ (~ src.body.utf8 \/ ~ src.body.readable)) =>
             DOMAIN results = {})
  /\ [][src' = src /\ staging' = staging /\ archive' = archive]_vars

\* the scan of a tree whose settings.json may not be opened has returned
ScannedUnreadable ==
  /\ scan_pc = "done"
  /\ "settings.json" \in src.files
  /\ ~ src.body.readable
  /\ DOMAIN results = {}

(***************************************************************************)
(* Properties of the TUI front-end.                                        *)
(***************************************************************************)
\* create_backup has been called for worker w and has not ended
InCore(w) == w \in pending \/ InFlight(w)

\* what holds in every state: a cancelled run never reached the core and
\* left nothing; the run in the core holds the event loop; one at a time
CancelledBeforeCore ==
  /\ \A w \in Invocations :
       worker[w] = "cancelled" =>
         /\ pc[w] = "idle" /\ w \notin pending
         /\ temp_dir[w] = 0 /\ outcome[w] = NoOutcome
  /\ (\A w \in Invocations : worker[w] \in {"none", "pending", "sleep1", "sleep2", "cancelled"}) =>
       /\ \A t \in Timestamps : staging[t] = NoDir
       /\ archive = InitialArchive
  /\ \A w \in Invocations : InCore(w) => worker[w] = "calling" /\ loop = w
  /\ \A v, w \in Invocations : (InCore(v) /\ InCore(w)) => v = w

\* while create_backup runs for w, every step is a step of that call
Uninterrupted ==
  \A w \in Invocations :
    InCore(w) => /\ pc'[w] # pc[w]
                 /\ worker' = worker
                 /\ quit' = quit

WritesOnlyOwnPaths ==
  /\ src' = src
  /\ \A t \in Timestamps :
       staging'[t] # staging[t] => \E i \in Invocations : pc'[i] # pc[i] /\ temp_dir'[i] = t
  /\ \A p \in OutputPaths :
       archive'[p] # archive[p] =>
         \E i \in Invocations : pc'[i] # pc[i] /\ call[i].output_path = p

\* C18: create_backup never modifies the source tree: under every policy
\* and every outcome each file and directory of the source root is after
\* the call what it was before (the destination being outside the source
\* root); sanitizing changes the staged copies only, and the call writes and
\* removes nothing but its staging directory and the destination archive.
SourceTreeUntouched == [][WritesOnlyOwnPaths]_vars

\* a sanitized backup is done: the archived settings.json holds the
\* placeholder, the source file still the credential
SanitizedCopyRawSource ==
  \E i \in Invocations :
    /\ Succeeded(i)
    /\ call[i].sanitize
    /\ "settings.json" \in src.files
    /\ src.body = SecretText
    /\ archive[call[i].output_path].files["settings.json"].data
         = sanitize_content(SecretText.data)
    /\ sanitize_content(SecretText.data) # SecretText.data

====
